---- MODULE Spec2Model ----
(***************************************************************************)
(* Water Drop Game (src/main.py): the model, the sprites, the keyboard     *)
(* tracker and the controller's three self-rescheduling timer callbacks.   *)
(*                                                                         *)
(* Numbers.  The fall speed is 5 * 1.01^n.  It is kept exactly, as the     *)
(* pair [num, exp] standing for num / 100^exp.  A droplet keeps the        *)
(* exponent of the model speed it was created with; its speed sn and its   *)
(* vertical position yn are numerators over Den(exp) = 2 * 100^exp (the 2  *)
(* makes the factor 1.5 of rare droplets exact).  Horizontal positions are *)
(* integers for the window widths used here.                               *)
(*                                                                         *)
(* Timers.  view.after(delay, callback) is single-shot: pending[k] is the  *)
(* number of callbacks of kind k waiting in the event loop; deletes counts *)
(* the waiting droplet.delete callbacks, live while their oval is on the   *)
(* canvas and stale once canvas.delete("all") has removed it.  The event   *)
(* loop runs one callback or one UI event at a time, in any order.         *)
(***************************************************************************)
EXTENDS Integers, Sequences, FiniteSets, TLC

(* ---------------------------- bounds ----------------------------------- *)
\* spawn ticks executed per session (caps the exponent of the fall speed)
MaxSpawn == 2
\* Retry is pressed while at most this many callbacks of the ended session
\* are still waiting in the event loop
MaxStale == 1

\* window sizes handed to WaterDropGameController(width, height)
Widths == {150, 160}
Heights == {5, 25}
\* the values random.randint is sampled at
XSamples == {50, 100, 750}

(* ---------------------- program constants ------------------------------ *)
cup_width == 100
cup_speed == 10
cup_height == 20
initial_droplet_speed == 5
\* droplet_acceleration = 1.01 = acceleration_num / acceleration_den
acceleration_num == 101
acceleration_den == 100
danger_points == 0 - 100

LEFT == "LEFT"
NONE == "NONE"
RIGHT == "RIGHT"
MoveDirection == {LEFT, NONE, RIGHT}

Keys == {"Left", "Right"}
Kinds == {"spawn_droplet", "move_droplets", "handle_keyboard"}

VARIABLES
    width, height,          \* WaterDropGameModel.width / .height
    score, high_score,      \* WaterDropGameModel.score / .high_score
    game_over,              \* WaterDropGameModel.game_over
    droplet_speed,          \* WaterDropGameModel.droplet_speed, [num, exp]
    droplets, danger_drops, \* WaterDropGameView.droplets / .danger_drops
    cup,                    \* WaterDropGameView.cup
    ovals,                  \* number of droplet ovals on the canvas
    events,                 \* KeyboardControl.events
    retry_button,           \* TRUE while the Retry button is placed
    pending,                \* timer callbacks waiting in the event loop, per kind
    deletes,                \* droplet.delete callbacks waiting: [live, stale]
    spawn_ticks,            \* history: spawn ticks executed since the last reset
    hist                    \* history of the session: droplets that reached the
                            \* bottom, calls of spawn_danger_drop, calls of
                            \* update_score

vars == <<width, height, score, high_score, game_over, droplet_speed,
          droplets, danger_drops, cup, ovals, events, retry_button, pending,
          deletes, spawn_ticks, hist>>

(* ---------------------------- arithmetic -------------------------------- *)
RECURSIVE Pow(_, _)
Pow(b, n) == IF n = 0 THEN 1 ELSE b * Pow(b, n - 1)

\* denominator of the positions and speeds of a droplet created at exponent e
Den(e) == 2 * Pow(acceleration_den, e)

Min(a, b) == IF a <= b THEN a ELSE b
Max(a, b) == IF a >= b THEN a ELSE b

\* random.randint(a, b), sampled
randint(a, b) == {x \in a..b : x \in XSamples}

(* ------------------------------ sprites --------------------------------- *)
\* DropletSprite(canvas, Coords(x, y), size, color, speed, points) with y = 0;
\* k is the factor applied to the model speed, in halves (2, 3 or 4)
DropletSprite(x, size, speed, k, points) ==
    [x |-> x, yn |-> 0, size |-> size, sn |-> k * speed.num,
     exp |-> speed.exp, points |-> points]

\* step of a droplet without the canvas move
droplet_step_no_move(d) == d

\* SpriteBase.step of a droplet: canvas.move(droplet, 0, speed), then the
\* coordinates are read back from the canvas
droplet_step(d) == [d EXCEPT !.yn = @ + d.sn]

\* canvas.create_rectangle: the canvas keeps a rectangle's corners ordered,
\* lowest first, whatever order they were given in
create_rectangle(x1, y1, x2, y2) ==
    [x1 |-> Min(x1, x2), y1 |-> Min(y1, y2), x2 |-> Max(x1, x2), y2 |-> Max(y1, y2)]

\* CupSprite(canvas, Coords(x, y), width, height, color, speed)
CupSprite(x, y) ==
    [x |-> x, y |-> y, direction |-> NONE,
     item |-> create_rectangle(x, y, x + cup_width, y - cup_height)]

\* canvas.winfo_width(): the canvas fills the fixed-size window
winfo_width == width

\* CupSprite._do_step: the horizontal canvas move, if any
cup_do_step(c) ==
    IF c.direction = LEFT /\ c.x > 0 THEN 0 - cup_speed
    ELSE IF c.direction = RIGHT /\ c.x + cup_width < winfo_width THEN cup_speed
    ELSE 0

\* SpriteBase.step of the cup: _do_step, then coords = Coords.from_canvas
cup_step(c) ==
    LET dx == cup_do_step(c)
        moved == [c.item EXCEPT !.x1 = @ + dx, !.x2 = @ + dx]
    IN  [c EXCEPT !.item = moved, !.x = moved.x1, !.y = moved.y1]

\* WaterDropGameView._init_cup; width / 2 is exact for the even Widths
init_cup == CupSprite(width \div 2 - cup_width \div 2, height)

(* ------------------------------- model ---------------------------------- *)
\* update_score that forgets to raise the high score
update_score_no_high(s, hs, points) == <<s + points, hs>>

\* WaterDropGameModel.update_score, on the pair <<score, high_score>>
update_score(s, hs, points) ==
    LET s2 == s + points
    IN  <<s2, IF s2 > hs THEN s2 ELSE hs>>

\* increase_difficulty as a linear ramp: droplet_speed += 0.05
increase_difficulty_linear(speed) ==
    [num |-> speed.num * acceleration_den + initial_droplet_speed * Pow(acceleration_den, speed.exp),
     exp |-> speed.exp + 1]

\* WaterDropGameModel.increase_difficulty
increase_difficulty(speed) ==
    [num |-> speed.num * acceleration_num, exp |-> speed.exp + 1]

\* reset that leaves the fall speed as it was
reset_keeps_speed ==
    [score |-> 0, game_over |-> FALSE, droplet_speed |-> droplet_speed]

\* WaterDropGameModel.reset: the fields it assigns
reset ==
    [score |-> 0, game_over |-> FALSE,
     droplet_speed |-> [num |-> initial_droplet_speed, exp |-> 0]]

(* ----------------------------- controller ------------------------------- *)
\* WaterDropGameController.did_droplet_hit_cup
did_droplet_hit_cup(d, c) ==
    LET droplet_bottom == d.yn + (d.size \div 2) * Den(d.exp)
        droplet_left == d.x
        droplet_right == d.x + d.size
        cup_top == c.y - cup_height
        cup_left == c.x
        cup_right == c.x + cup_width
    IN  /\ droplet_bottom > cup_top * Den(d.exp)
        /\ droplet_left < cup_right
        /\ droplet_right > cup_left

\* "hits bottom": droplet.coords.y >= self.model.height
hits_bottom(d) == d.yn >= height * Den(d.exp)

\* create_droplet putting the new droplet in front of the list
create_droplet_front(ds, d) == <<d>> \o ds

\* WaterDropGameView.create_droplet: the new droplet goes at the end of
\* view.droplets
create_droplet(ds, d) == Append(ds, d)

\* WaterDropGameView.create_danger_droplet as spawn_danger_drop calls it:
\* size 30, twice the current fall speed, points -100
create_danger_droplet(x, speed) == DropletSprite(x, 30, speed, 4, danger_points)

\* the first loop with a caught droplet kept in next_droplets
RECURSIVE droplets_loop_keeps_caught(_, _, _)
droplets_loop_keeps_caught(ds, c, acc) ==
    IF ds = <<>> THEN acc
    ELSE LET d == droplet_step(Head(ds))
         IN  IF hits_bottom(d)
             THEN droplets_loop_keeps_caught(Tail(ds), c,
                      [acc EXCEPT !.misses = @ + 1, !.scheduled = @ + 1])
             ELSE IF did_droplet_hit_cup(d, c)
             THEN droplets_loop_keeps_caught(Tail(ds), c,
                      [acc EXCEPT !.sc = update_score(acc.sc[1], acc.sc[2], d.points),
                                  !.awards = @ + 1,
                                  !.scheduled = @ + 1,
                                  !.next = Append(@, d)])
             ELSE droplets_loop_keeps_caught(Tail(ds), c,
                      [acc EXCEPT !.next = Append(@, d)])

\* the first loop with a missed droplet costing the points of a danger droplet
RECURSIVE droplets_loop_miss_penalty(_, _, _)
droplets_loop_miss_penalty(ds, c, acc) ==
    IF ds = <<>> THEN acc
    ELSE LET d == droplet_step(Head(ds))
         IN  IF hits_bottom(d)
             THEN droplets_loop_miss_penalty(Tail(ds), c,
                      [acc EXCEPT !.sc = update_score(acc.sc[1], acc.sc[2], danger_points),
                                  !.misses = @ + 1, !.scheduled = @ + 1])
             ELSE IF did_droplet_hit_cup(d, c)
             THEN droplets_loop_miss_penalty(Tail(ds), c,
                      [acc EXCEPT !.sc = update_score(acc.sc[1], acc.sc[2], d.points),
                                  !.awards = @ + 1,
                                  !.scheduled = @ + 1])
             ELSE droplets_loop_miss_penalty(Tail(ds), c,
                      [acc EXCEPT !.next = Append(@, d)])

\* the first loop with spawn_danger_drop called for a caught droplet as well
RECURSIVE droplets_loop_danger_on_catch(_, _, _)
droplets_loop_danger_on_catch(ds, c, acc) ==
    IF ds = <<>> THEN acc
    ELSE LET d == droplet_step(Head(ds))
         IN  IF hits_bottom(d)
             THEN droplets_loop_danger_on_catch(Tail(ds), c,
                      [acc EXCEPT !.misses = @ + 1, !.scheduled = @ + 1])
             ELSE IF did_droplet_hit_cup(d, c)
             THEN droplets_loop_danger_on_catch(Tail(ds), c,
                      [acc EXCEPT !.sc = update_score(acc.sc[1], acc.sc[2], d.points),
                                  !.awards = @ + 1,
                                  !.misses = @ + 1,
                                  !.scheduled = @ + 1])
             ELSE droplets_loop_danger_on_catch(Tail(ds), c,
                      [acc EXCEPT !.next = Append(@, d)])

\* the first loop of move_droplets over view.droplets: the surviving droplets,
\* the score pair, the number of calls of spawn_danger_drop, the number of
\* calls of update_score and the number of droplet.delete callbacks handed to
\* view.after
RECURSIVE droplets_loop(_, _, _)
droplets_loop(ds, c, acc) ==
    IF ds = <<>> THEN acc
    ELSE LET d == droplet_step(Head(ds))
         IN  IF hits_bottom(d)
             THEN droplets_loop(Tail(ds), c,
                      [acc EXCEPT !.misses = @ + 1, !.scheduled = @ + 1])
             ELSE IF did_droplet_hit_cup(d, c)
             THEN droplets_loop(Tail(ds), c,
                      [acc EXCEPT !.sc = update_score(acc.sc[1], acc.sc[2], d.points),
                                  !.awards = @ + 1,
                                  !.scheduled = @ + 1])
             ELSE droplets_loop(Tail(ds), c, [acc EXCEPT !.next = Append(@, d)])

\* the second loop with end_game called in the "hits bottom" branch as well
RECURSIVE danger_loop_ends_at_bottom(_, _, _)
danger_loop_ends_at_bottom(ds, c, acc) ==
    IF ds = <<>> THEN acc
    ELSE LET d == droplet_step(Head(ds))
         IN  IF hits_bottom(d) \/ did_droplet_hit_cup(d, c)
             THEN danger_loop_ends_at_bottom(Tail(ds), c, [acc EXCEPT !.ended = TRUE])
             ELSE danger_loop_ends_at_bottom(Tail(ds), c, [acc EXCEPT !.next = Append(@, d)])

\* the second loop of move_droplets over view.danger_drops: the surviving
\* danger droplets, the number deleted from the canvas at once and whether
\* end_game was called
RECURSIVE danger_loop(_, _, _)
danger_loop(ds, c, acc) ==
    IF ds = <<>> THEN acc
    ELSE LET d == droplet_step(Head(ds))
         IN  IF hits_bottom(d)
             THEN danger_loop(Tail(ds), c, [acc EXCEPT !.deleted = @ + 1])
             ELSE IF did_droplet_hit_cup(d, c)
             THEN danger_loop(Tail(ds), c, [acc EXCEPT !.ended = TRUE])
             ELSE danger_loop(Tail(ds), c, [acc EXCEPT !.next = Append(@, d)])

\* view.after(delay, callback) for a callback of kind k
after(p, k) == [p EXCEPT ![k] = @ + 1]

\* the event loop takes a waiting callback of kind k off its queue
fire(p, k) == [p EXCEPT ![k] = @ - 1]

\* WaterDropGameController._reset_timers
reset_timers(p) ==
    after(after(after(p, "spawn_droplet"), "move_droplets"), "handle_keyboard")

\* all callbacks waiting in the event loop
waiting ==
    pending["spawn_droplet"] + pending["move_droplets"] + pending["handle_keyboard"]
        + deletes.live + deletes.stale

(* ------------------------------- Init ----------------------------------- *)
Init ==
    /\ width \in Widths
    /\ height \in Heights
    /\ score = 0
    /\ high_score = 0
    /\ game_over = FALSE
    /\ droplet_speed = [num |-> initial_droplet_speed, exp |-> 0]
    /\ droplets = <<>>
    /\ danger_drops = <<>>
    /\ cup = init_cup
    /\ ovals = 0
    /\ events = [k \in Keys |-> FALSE]
    /\ retry_button = FALSE
    /\ pending = reset_timers([k \in Kinds |-> 0])
    /\ deletes = [live |-> 0, stale |-> 0]
    /\ spawn_ticks = 0
    /\ hist = [misses |-> 0, dangers |-> 0, awards |-> 0]

(* ------------------------------ actions --------------------------------- *)
\* WaterDropGameController.spawn_droplet, run by the event loop
spawn_droplet ==
    /\ pending["spawn_droplet"] > 0
    /\ IF ~game_over
       THEN /\ droplet_speed.exp < MaxSpawn
            /\ LET speed == increase_difficulty(droplet_speed)
               IN  /\ droplet_speed' = speed
                   /\ spawn_ticks' = spawn_ticks + 1
                   /\ \E x \in randint(50, width - 50), rare \in BOOLEAN :
                        droplets' = create_droplet(droplets,
                            IF rare THEN DropletSprite(x, 20, speed, 3, 50)
                                    ELSE DropletSprite(x, 10, speed, 2, 10))
                   /\ ovals' = ovals + 1
            /\ pending' = after(fire(pending, "spawn_droplet"), "spawn_droplet")
       ELSE /\ pending' = fire(pending, "spawn_droplet")
            /\ UNCHANGED <<droplet_speed, droplets, ovals, spawn_ticks>>
    /\ UNCHANGED <<width, height, score, high_score, game_over, danger_drops,
                   cup, events, retry_button, deletes, hist>>

\* WaterDropGameController.move_droplets, run by the event loop; r and q are
\* the outcomes of its first and second loop
move_droplets ==
    /\ pending["move_droplets"] > 0
    /\ IF ~game_over
       THEN \E r \in {droplets_loop(droplets, cup,
                        [next |-> <<>>, sc |-> <<score, high_score>>,
                         misses |-> 0, awards |-> 0, scheduled |-> 0])} :
                /\ droplets' = r.next
                /\ hist' = [misses |-> hist.misses + Cardinality(
                                {i \in DOMAIN droplets :
                                    hits_bottom(droplet_step(droplets[i]))}),
                            dangers |-> hist.dangers + r.misses,
                            awards |-> hist.awards + r.awards]
                /\ score' = r.sc[1]
                /\ high_score' = r.sc[2]
                /\ deletes' = [deletes EXCEPT !.live = @ + r.scheduled]
                \* spawn_danger_drop, once per miss, each at a random x
                /\ \E xs \in [1..r.misses -> randint(50, 750)] :
                     \E q \in {danger_loop(
                                  danger_drops \o [i \in 1..r.misses |->
                                      create_danger_droplet(xs[i], droplet_speed)],
                                  cup,
                                  [next |-> <<>>, deleted |-> 0, ended |-> FALSE])} :
                         /\ danger_drops' = q.next
                         /\ ovals' = ovals + r.misses - q.deleted
                         \* end_game
                         /\ game_over' = q.ended
                         /\ retry_button' = (retry_button \/ q.ended)
                /\ pending' = after(fire(pending, "move_droplets"), "move_droplets")
       ELSE /\ pending' = fire(pending, "move_droplets")
            /\ UNCHANGED <<score, high_score, game_over, droplets, danger_drops,
                           ovals, retry_button, deletes, hist>>
    /\ UNCHANGED <<width, height, droplet_speed, cup, events, spawn_ticks>>

\* handle_keyboard with cup.step() outside the game_over test
handle_keyboard_steps_always ==
    /\ pending["handle_keyboard"] > 0
    /\ IF ~game_over
       THEN /\ cup' = cup_step([cup EXCEPT !.direction =
                         IF events["Left"] # events["Right"]
                         THEN (IF events["Left"] THEN LEFT ELSE RIGHT) ELSE NONE])
            /\ pending' = after(fire(pending, "handle_keyboard"), "handle_keyboard")
       ELSE /\ cup' = cup_step(cup)
            /\ pending' = fire(pending, "handle_keyboard")
    /\ UNCHANGED <<width, height, score, high_score, game_over, droplet_speed,
                   droplets, danger_drops, ovals, events, retry_button, deletes,
                   spawn_ticks, hist>>

\* handle_keyboard with view.after(...) outside the game_over test
handle_keyboard_always_reschedules ==
    /\ pending["handle_keyboard"] > 0
    /\ IF ~game_over
       THEN cup' = cup_step([cup EXCEPT !.direction =
                         IF events["Left"] # events["Right"]
                         THEN (IF events["Left"] THEN LEFT ELSE RIGHT) ELSE NONE])
       ELSE UNCHANGED cup
    /\ pending' = after(fire(pending, "handle_keyboard"), "handle_keyboard")
    /\ UNCHANGED <<width, height, score, high_score, game_over, droplet_speed,
                   droplets, danger_drops, ovals, events, retry_button, deletes,
                   spawn_ticks, hist>>

\* handle_keyboard testing the Left key first instead of left_down ^ right_down
handle_keyboard_left_first ==
    /\ pending["handle_keyboard"] > 0
    /\ IF ~game_over
       THEN /\ cup' = cup_step([cup EXCEPT !.direction =
                         IF events["Left"] THEN LEFT
                         ELSE IF events["Right"] THEN RIGHT ELSE NONE])
            /\ pending' = after(fire(pending, "handle_keyboard"), "handle_keyboard")
       ELSE /\ pending' = fire(pending, "handle_keyboard")
            /\ UNCHANGED cup
    /\ UNCHANGED <<width, height, score, high_score, game_over, droplet_speed,
                   droplets, danger_drops, ovals, events, retry_button, deletes,
                   spawn_ticks, hist>>

\* WaterDropGameController.handle_keyboard, run by the event loop
handle_keyboard ==
    /\ pending["handle_keyboard"] > 0
    /\ IF ~game_over
       THEN LET left_down == events["Left"]
                right_down == events["Right"]
                direction == IF left_down # right_down
                             THEN (IF left_down THEN LEFT ELSE RIGHT)
                             ELSE NONE
            IN  /\ cup' = cup_step([cup EXCEPT !.direction = direction])
                /\ pending' = after(fire(pending, "handle_keyboard"), "handle_keyboard")
       ELSE /\ pending' = fire(pending, "handle_keyboard")
            /\ UNCHANGED cup
    /\ UNCHANGED <<width, height, score, high_score, game_over, droplet_speed,
                   droplets, danger_drops, ovals, events, retry_button, deletes,
                   spawn_ticks, hist>>

\* DropletSprite.delete, run by the event loop one move interval after the
\* droplet left the live list; deleting an oval the canvas no longer has
\* changes nothing
droplet_delete ==
    /\ \/ /\ deletes.live > 0
          /\ deletes' = [deletes EXCEPT !.live = @ - 1]
          /\ ovals' = ovals - 1
       \/ /\ deletes.stale > 0
          /\ deletes' = [deletes EXCEPT !.stale = @ - 1]
          /\ UNCHANGED ovals
    /\ UNCHANGED <<width, height, score, high_score, game_over, droplet_speed,
                   droplets, danger_drops, cup, events, retry_button, pending,
                   spawn_ticks, hist>>

\* restart_game without self.danger_drops = []
restart_game_keeps_dangers ==
    /\ retry_button
    /\ waiting <= MaxStale
    /\ score' = reset.score
    /\ game_over' = reset.game_over
    /\ droplet_speed' = reset.droplet_speed
    /\ spawn_ticks' = 0
    /\ hist' = [misses |-> 0, dangers |-> 0, awards |-> 0]
    /\ ovals' = 0
    /\ deletes' = [live |-> 0, stale |-> deletes.stale + deletes.live]
    /\ retry_button' = FALSE
    /\ droplets' = <<>>
    /\ cup' = init_cup
    /\ pending' = reset_timers(pending)
    /\ UNCHANGED <<width, height, high_score, events, danger_drops>>

\* WaterDropGameView.restart_game, the command of the Retry button
restart_game ==
    /\ retry_button
    /\ waiting <= MaxStale
    \* model.reset()
    /\ score' = reset.score
    /\ game_over' = reset.game_over
    /\ droplet_speed' = reset.droplet_speed
    /\ spawn_ticks' = 0
    /\ hist' = [misses |-> 0, dangers |-> 0, awards |-> 0]
    \* canvas.delete("all")
    /\ ovals' = 0
    /\ deletes' = [live |-> 0, stale |-> deletes.stale + deletes.live]
    /\ retry_button' = FALSE
    /\ droplets' = <<>>
    /\ danger_drops' = <<>>
    /\ cup' = init_cup
    \* on_restart = controller._reset_timers
    /\ pending' = reset_timers(pending)
    /\ UNCHANGED <<width, height, high_score, events>>

\* KeyboardControl.handle_key_press
handle_key_press ==
    /\ \E k \in Keys : ~events[k] /\ events' = [events EXCEPT ![k] = TRUE]
    /\ UNCHANGED <<width, height, score, high_score, game_over, droplet_speed,
                   droplets, danger_drops, cup, ovals, retry_button, pending,
                   deletes, spawn_ticks, hist>>

\* KeyboardControl.handle_key_release
handle_key_release ==
    /\ \E k \in Keys : events[k] /\ events' = [events EXCEPT ![k] = FALSE]
    /\ UNCHANGED <<width, height, score, high_score, game_over, droplet_speed,
                   droplets, danger_drops, cup, ovals, retry_button, pending,
                   deletes, spawn_ticks, hist>>

Next ==
    \/ spawn_droplet
    \/ move_droplets
    \/ handle_keyboard
    \/ droplet_delete
    \/ restart_game
    \/ handle_key_press
    \/ handle_key_release

Spec == Init /\ [][Next]_vars

(* ------------------------ fair event loop ------------------------------- *)
\* one window width, for the properties checked under fairness
InitFair == Init /\ width = 160

\* the event loop runs a timer callback that is still waiting once the game
\* is over; the player's key events and the Retry button carry no obligation
FairSpec ==
    /\ InitFair
    /\ [][Next]_vars
    /\ WF_vars(game_over /\ (spawn_droplet \/ move_droplets \/ handle_keyboard))

\* the event loop runs the waiting move_droplets callback of an active game:
\* the move timer keeps firing
MoveFairSpec ==
    /\ InitFair
    /\ [][Next]_vars
    /\ WF_vars(~game_over /\ move_droplets)

(* ----------------------- vocabulary of the claims ----------------------- *)
\* the Retry button is pressed in this step
RetryPressed == retry_button /\ ~retry_button'

NoPending == \A k \in Kinds : pending[k] = 0

\* the droplet's box [x, x+size] x [y, y+size] and the cup's rectangle on the
\* canvas have a common interior point
BoxOverlap(d, c) ==
    /\ d.x < c.item.x2
    /\ d.x + d.size > c.item.x1
    /\ d.yn + d.size * Den(d.exp) > c.item.y1 * Den(d.exp)
    /\ d.yn < c.item.y2 * Den(d.exp)

\* the droplet is horizontally over the cup
OverCup(d, c) == d.x < c.item.x2 /\ d.x + d.size > c.item.x1

\* the overlap test with droplet.bottom = y + size and cup.top = cupY - cupHeight,
\* cupY being the floor line the cup stands on
ClaimedHit(d, c) ==
    /\ d.yn + d.size * Den(d.exp) > (c.item.y2 - cup_height) * Den(d.exp)
    /\ d.x < c.x + cup_width
    /\ d.x + d.size > c.x

Live == {droplets[i] : i \in DOMAIN droplets} \cup {danger_drops[i] : i \in DOMAIN danger_drops}

\* the danger droplets a move tick steps: the live ones and, if a collectible
\* reaches the bottom in the tick, those it spawns
SteppedDangers ==
    LET missed == \E i \in DOMAIN droplets : hits_bottom(droplet_step(droplets[i]))
    IN  {danger_drops[i] : i \in DOMAIN danger_drops} \cup
        {create_danger_droplet(x, droplet_speed) :
            x \in IF missed THEN 50..750 ELSE {}}

(* ------------------------------- claims --------------------------------- *)
\* C1: there is at most one pending callback of each kind (spawn_droplet,
\* move_droplets, handle_keyboard), whatever the interleaving of ticks, game
\* overs and restarts.  Stated as claimed; the code violates it.
C1_OnePendingPerKind == \A k \in Kinds : pending[k] <= 1

\* C2: while gameOver is true no callback changes score, highScore, fall speed,
\* the cup or the two droplet lists, and gameOver stays true until Retry is
\* pressed (so it goes from false to true once per session).
C2_FrozenAfterGameOver ==
    [][game_over =>
        \/ RetryPressed
        \/ /\ game_over'
           /\ UNCHANGED <<score, high_score, droplet_speed, cup, droplets, danger_drops>>]_vars

\* C2 witness: the game is over with a droplet still in the live list, the cup
\* last told to move, and the pending move and input-poll callbacks have run
C2_Witness ==
    /\ game_over
    /\ droplets # <<>>
    /\ cup.direction # NONE
    /\ pending["move_droplets"] = 0
    /\ pending["handle_keyboard"] = 0

\* C3: highScore >= score in every state, and no step lowers highScore.
C3_HighScore ==
    /\ [](high_score >= score)
    /\ [][high_score' >= high_score]_vars

\* C3 witness: a new session has scored while an older high score stands
C3_Witness == score > 0 /\ high_score > score

\* C4: the cup's x stays within [0, windowWidth - cupWidth].  Stated as
\* claimed; the code violates it.
C4_CupInRange == 0 <= cup.x /\ cup.x <= width - cup_width

C6_Restart ==
    [][RetryPressed =>
        /\ score' = 0
        /\ ~game_over'
        /\ droplet_speed' = [num |-> 5, exp |-> 0]
        /\ droplets' = <<>>
        /\ danger_drops' = <<>>
        /\ 2 * cup'.x + cup_width = width
        /\ cup'.direction = NONE]_vars

\* C6 witness: the state right after a restart taken while the callbacks of
\* the ended session were still pending
C6_Witness ==
    /\ ~game_over
    /\ spawn_ticks = 0
    /\ droplets = <<>>
    /\ \E k \in Kinds : pending[k] = 2

\* C7: a collectible droplet over the cup that a move tick carries down to
\* the floor is caught in that tick: score grows by its points.  Stated as
\* claimed; the code violates it.
C7_FloorCatch ==
    [][(~game_over /\ move_droplets) =>
        \A i \in DOMAIN droplets :
            (OverCup(droplets[i], cup) /\ hits_bottom(droplet_step(droplets[i])))
                => score' >= score + droplets[i].points]_vars

\* C8: did_droplet_hit_cup is true exactly when droplet.bottom > cup.top and
\* droplet.left < cup.right and droplet.right > cup.left, with droplet.bottom
\* = y + size.  Stated as claimed, on every live droplet; the code violates it.
C8_HitIsBoxTest == \A d \in Live : did_droplet_hit_cup(d, cup) <=> ClaimedHit(d, cup)

\* C9: once gameOver is true, either Retry is pressed or eventually no spawn,
\* move or input-poll callback is pending; while the game is over no callback
\* kind gains a pending callback.
C9_ChainsStop ==
    /\ game_over ~> (~game_over \/ NoPending)
    /\ [][(game_over /\ game_over') => \A k \in Kinds : pending'[k] <= pending[k]]_vars

\* C9 witness: the game is over and nothing is pending
C9_Witness == game_over /\ NoPending

\* C10: after n spawn ticks executed since the last reset the fall speed is
\* 5 * 1.01^n, whatever move and input-poll ticks ran in between.
C10_Speed ==
    /\ droplet_speed.exp = spawn_ticks
    /\ droplet_speed.num = 5 * Pow(101, spawn_ticks)

\* C10 witness: two spawn ticks into a session that follows a restart
C10_Witness == spawn_ticks >= 2 /\ score < high_score

\* C11: within a session the number of danger droplets created equals the
\* number of collectible droplets that reached the bottom, and the list of
\* danger droplets grows only in a move tick in which a droplet reached the
\* bottom: a catch, a spawn tick, an input-poll tick and a danger droplet
\* reaching the bottom create none.
C11_DangerPerMiss ==
    /\ [](hist.dangers = hist.misses)
    /\ [][Len(danger_drops') > Len(danger_drops) =>
            /\ ~game_over /\ move_droplets
            /\ hist'.misses > hist.misses
            /\ Len(danger_drops') - Len(danger_drops)
                   <= hist'.misses - hist.misses]_vars

\* C11 witness: a session with a catch and a miss, the danger droplet of the
\* miss still falling
C11_Witness ==
    /\ hist.misses >= 1
    /\ hist.awards >= 1
    /\ Len(danger_drops) >= 1

\* C12: no invocation of a timer callback leaves a new pending callback of
\* its kind behind when game_over is true at its end, the move tick that
\* sets game_over included.  Stated as claimed; the code violates it.
C12_NoRescheduleWhenOver ==
    [][/\ (spawn_droplet /\ game_over') =>
              pending'["spawn_droplet"] = pending["spawn_droplet"] - 1
       /\ (move_droplets /\ game_over') =>
              pending'["move_droplets"] = pending["move_droplets"] - 1
       /\ (handle_keyboard /\ game_over') =>
              pending'["handle_keyboard"] = pending["handle_keyboard"] - 1]_vars

HeldDirection ==
    IF events["Left"] /\ ~events["Right"] THEN LEFT
    ELSE IF events["Right"] /\ ~events["Left"] THEN RIGHT
    ELSE NONE

\* C14: an input-poll tick of an active game sets the cup's direction to
\* LEFT if only Left is held, RIGHT if only Right is held and NONE
\* otherwise, and moves the cup by one step: towards that direction, by at
\* most cup_speed, and not at all when the direction is NONE.
C14_CupFollowsKeys ==
    [][(~game_over /\ handle_keyboard) =>
           /\ cup'.direction = HeldDirection
           /\ cup'.x - cup.x \in (0 - cup_speed)..cup_speed
           /\ HeldDirection = NONE => cup'.x = cup.x
           /\ HeldDirection = LEFT => cup'.x <= cup.x
           /\ HeldDirection = RIGHT => cup'.x >= cup.x]_vars

\* C14 witness: the cup has been moved off its start position and a later
\* poll has stopped it while both keys are held
C14_Witness ==
    /\ ~game_over
    /\ events["Left"] /\ events["Right"]
    /\ cup.direction = NONE
    /\ cup.x # init_cup.x

\* the droplets of view.droplets that the move tick of this step takes out
\* of play above the bottom edge, that is, the caught ones
CaughtNow ==
    {i \in DOMAIN droplets :
        /\ ~hits_bottom(droplet_step(droplets[i]))
        /\ \A j \in DOMAIN droplets' : droplets'[j] # droplet_step(droplets[i])}

\* the points of the droplets of view.droplets at the indexes in S
RECURSIVE SumPoints(_)
SumPoints(S) ==
    IF S = {} THEN 0
    ELSE LET i == CHOOSE j \in S : TRUE
         IN  droplets[i].points + SumPoints(S \ {i})

\* C15: score is never negative, and it changes only when restart sets it
\* to 0 or when a move tick of an active game adds the points, 10 or 50
\* each, of the collectible droplets caught in that tick.
C15_ScoreChanges ==
    /\ [](score >= 0)
    /\ [][score' # score =>
            \/ restart_game /\ score' = 0
            \/ /\ ~game_over /\ move_droplets
               /\ CaughtNow # {}
               /\ \A i \in CaughtNow : droplets[i].points \in {10, 50}
               /\ score' = score + SumPoints(CaughtNow)]_vars

\* C15 witness: the session has scored and a danger droplet has then ended
\* it without taking points away
C15_Witness == game_over /\ score > 0 /\ hist.misses >= 1

\* C16: every droplet, collectible or danger, was created with x in
\* [50, width - 50]; a droplet keeps its x while it falls, so this is read
\* off the live lists.  Stated as claimed; the code violates it.
C16_SpawnRange ==
    /\ \A i \in DOMAIN droplets :
           50 <= droplets[i].x /\ droplets[i].x <= width - 50
    /\ \A i \in DOMAIN danger_drops :
           50 <= danger_drops[i].x /\ danger_drops[i].x <= width - 50

\* the danger droplets the move tick of this step creates, and the droplets
\* of either kind it takes out of the live lists
MadeNow == hist'.dangers - hist.dangers

LeftNow ==
    (Len(droplets) - Len(droplets'))
        + (Len(danger_drops) + MadeNow - Len(danger_drops'))

\* C17: a move tick deletes no shape from the canvas (the canvas gains
\* exactly the shapes of the danger droplets created in the tick) and
\* hands one delete callback to the event loop for every droplet,
\* collectible or danger, that leaves a live list in the tick.  Stated as
\* claimed; the code violates it.
C17_DeleteOneTickLater ==
    [][(~game_over /\ move_droplets) =>
           /\ ovals' = ovals + MadeNow
           /\ deletes'.live = deletes.live + LeftNow]_vars

\* C18: every collectible droplet created in the session is either still in
\* view.droplets, or has awarded its points once, or has caused one danger
\* spawn, and never two of these: the awards, the danger spawns and the
\* live droplets add up to the droplets created, and a move tick takes out
\* of view.droplets exactly the droplets it scores or counts as missed.
C18_ProcessedOnce ==
    /\ [](hist.awards + hist.dangers + Len(droplets) = spawn_ticks)
    /\ [][(~game_over /\ move_droplets) =>
            Len(droplets) - Len(droplets')
                = (hist'.awards - hist.awards) + MadeNow]_vars

\* C18 witness: a session run by two move chains in which one droplet has
\* been caught and another missed
C18_Witness ==
    /\ pending["move_droplets"] >= 2
    /\ hist.awards >= 1
    /\ hist.dangers >= 1

\* C19: whenever game_over is true a collectible droplet has reached the
\* bottom since the last restart, and every danger droplet in the live list
\* comes from a miss of the running session: none is left over from before
\* a restart.
C19_EndsOnlyAfterMiss ==
    /\ game_over => hist.misses >= 1
    /\ Len(danger_drops) <= hist.misses

\* C19 witness: a later session, its score below the high score of an
\* earlier one, has ended
C19_Witness ==
    /\ game_over
    /\ high_score > score
    /\ hist.misses >= 1

\* a droplet created after e spawn ticks of the session, hence falling with
\* the speed of that moment, is in a live list
InPlay(e) == \E d \in Live : d.exp = e

\* C20: every droplet in a live list has its top y less than the window height,
\* and while the game stays active and the move timer keeps firing every
\* droplet in a live list eventually leaves it: for each fall speed, again
\* and again the game is over or no droplet created at that speed is in a
\* live list (the same as InPlay(e) ~> game_over \/ ~InPlay(e)).
C20_DropletsLeave ==
    /\ [](\A d \in Live : d.yn < height * Den(d.exp))
    /\ \A e \in 1..MaxSpawn : []<>(game_over \/ ~InPlay(e))

\* C20 witness: in an active game a droplet has fallen to the bottom, the
\* danger droplet it spawned has fallen off as well and the lists are empty
C20_Witness ==
    /\ ~game_over
    /\ hist.dangers >= 1
    /\ droplets = <<>>
    /\ danger_drops = <<>>

====
